---- MODULE Spec2Model ----
(***************************************************************************)
(* Okinawa Spectrum Logger (app.py): a Streamlit script.  Every user       *)
(* interaction runs the whole script from the top: the Google Sheets        *)
(* connection is (re)built, the session's record list is initialised or     *)
(* refreshed, the sidebar form and the main page are rendered, and a        *)
(* clicked button's handler runs and ends in st.rerun(), which runs the     *)
(* script once more.  The state is the session's record list                *)
(* (st.session_state.logs), the remote worksheet, the backup CSV file and   *)
(* the photos directory.                                                    *)
(*                                                                          *)
(* A Python value is modelled as [ty, s]: its type and its text (str(v)),   *)
(* so that int 12 and str "12" are different values with the same text.     *)
(* A worksheet or a CSV file is a sequence of rows of cell texts.           *)
(***************************************************************************)
EXTENDS Integers, Sequences, FiniteSets, TLC

VARIABLES
    configured,      \* "gcp_service_account" in st.secrets
    GSHEET_ENABLED,  \* as set by the last script run
    hasLogs,         \* 'logs' in st.session_state
    logs,            \* st.session_state.logs
    sheet,           \* gsheet_worksheet: its rows, each a sequence of cell texts
    csv,             \* okinawa_survey_data.csv: [exists, rows]
    photos,          \* the files that exist under photos/
    clock,           \* datetime.now(), in seconds
    raised,          \* the exception that ended the last script run, or "none"
    charts,          \* what the last script run plotted
    success,         \* st.success was shown by the last interaction
    last             \* the last interaction: the button handler that ran

vars == <<configured, GSHEET_ENABLED, hasLogs, logs, sheet, csv, photos,
          clock, raised, charts, success, last>>

----------------------------------------------------------------------------
(* Bounds of the model *)

MaxLogs == 2     \* submissions are accepted while the store is shorter
MaxClock == 1    \* the clock runs from second 0 to second MaxClock

(* Program constants *)

SliderMin == -50
SliderMax == 50

----------------------------------------------------------------------------
(* Python values *)

PyInt(n) == [ty |-> "int", s |-> ToString(n)]
PyStr(t) == [ty |-> "str", s |-> t]
PyFloat(t) == [ty |-> "float", s |-> t]
Missing == [ty |-> "missing", s |-> ""]      \* the key is not in the dict

\* The texts int() accepts, among the texts of the model: the slider range.
IntTexts == {ToString(n) : n \in SliderMin..SliderMax}
\* The texts float() accepts and int() does not.
FloatTexts == {ToString(n) \o ".0" : n \in SliderMin..SliderMax}

\* int(t) or float(t) of such a text, as a table from the text to the number
RECURSIVE NumberTable(_, _)
NumberTable(lo, hi) ==
    IF lo = hi THEN (ToString(lo) :> lo) @@ (ToString(lo) \o ".0" :> lo)
    ELSE LET mid == (lo + hi) \div 2
         IN NumberTable(lo, mid) @@ NumberTable(mid + 1, hi)

NumberOf == NumberTable(SliderMin, SliderMax)

IntOfText(t) == NumberOf[t]

\* dict.get(key, default)
Get(log, key, default) == IF log[key].ty = "missing" THEN default ELSE log[key]

Headers ==
    <<"Location", "Hard_Y_Authenticity", "Hard_X_Affect", "Soft_Y_Correctness",
      "Soft_X_Affect", "Comment", "Image_Path", "Timestamp">>

Fields == {Headers[j] : j \in 1..Len(Headers)}

RatingFields ==
    {"Hard_Y_Authenticity", "Hard_X_Affect", "Soft_Y_Correctness", "Soft_X_Affect"}

\* list.pop(i), i 0-based
Pop(l, i) == SubSeq(l, 1, i) \o SubSeq(l, i + 2, Len(l))

\* worksheet.delete_rows(index), index 1-based; a row below the last is no row
DeleteRows(ws, index) ==
    IF index \in 1..Len(ws)
    THEN SubSeq(ws, 1, index - 1) \o SubSeq(ws, index + 1, Len(ws))
    ELSE ws

----------------------------------------------------------------------------
(* gspread: the worksheet *)

\* gspread.utils.numericise: int(value), else float(value), else the string
numericise(t) ==
    IF t \in IntTexts THEN [ty |-> "int", s |-> t]
    ELSE IF t \in FloatTexts THEN PyFloat(t)
    ELSE PyStr(t)

\* get_all_records: the first row is the keys, dict(zip(keys, row)) per row
get_all_records(ws) ==
    IF Len(ws) <= 1 THEN <<>>
    ELSE [r \in 1..(Len(ws) - 1) |->
            [f \in Fields |->
                IF \E j \in 1..Len(ws[1]) : ws[1][j] = f /\ j <= Len(ws[r + 1])
                THEN LET j == CHOOSE k \in 1..Len(ws[1]) : ws[1][k] = f
                     IN numericise(ws[r + 1][j])
                ELSE Missing]]

\* load_from_gsheet; ok: the remote call succeeds.  DataFrame(records)
\* .fillna("").to_dict("records") changes no record whose keys are all set.
load_from_gsheet(ws, ok) == IF ok THEN get_all_records(ws) ELSE <<>>

\* the row save_to_gsheet builds; the form's values are ints and strings
RowOf(log_entry) ==
    <<Get(log_entry, "Location", PyStr("")).s,
      Get(log_entry, "Hard_Y_Authenticity", PyInt(0)).s,
      Get(log_entry, "Hard_X_Affect", PyInt(0)).s,
      Get(log_entry, "Soft_Y_Correctness", PyInt(0)).s,
      Get(log_entry, "Soft_X_Affect", PyInt(0)).s,
      Get(log_entry, "Comment", PyStr("")).s,
      Get(log_entry, "Image_Path", PyStr("")).s,
      Get(log_entry, "Timestamp", PyStr("")).s>>

\* (a variant that appends the header on every save)
HeaderOnEverySave(existing) == TRUE

\* the header is appended when get_all_values() is empty
NeedsHeader(existing) == existing = <<>>

\* save_to_gsheet; failing: the remote call that raises, if one does
save_to_gsheet(ws, log_entry, failing) ==
    IF failing = "getvals" THEN [ws |-> ws, ok |-> FALSE]
    ELSE IF NeedsHeader(ws) /\ failing = "header" THEN [ws |-> ws, ok |-> FALSE]
    ELSE LET ws1 == IF NeedsHeader(ws) THEN Append(ws, Headers) ELSE ws
         IN IF failing = "row" THEN [ws |-> ws1, ok |-> FALSE]
            ELSE [ws |-> Append(ws1, RowOf(log_entry)), ok |-> TRUE]

\* (a variant that forgets the header row)
SheetRowWithoutHeader(row_index) == row_index + 1

\* gspread rows are 1-based and the header is row 1
SheetRowOf(row_index) == row_index + 2

\* delete_from_gsheet
delete_from_gsheet(ws, row_index, ok) ==
    IF ok THEN [ws |-> DeleteRows(ws, SheetRowOf(row_index)), ok |-> TRUE]
    ELSE [ws |-> ws, ok |-> FALSE]

----------------------------------------------------------------------------
(* pandas: the backup CSV file *)

NoFile == [exists |-> FALSE, rows |-> <<>>]

\* DataFrame(logs).to_csv: the columns and one row per record; no record,
\* no column, and the file holds an empty line only
to_csv(records) ==
    IF records = <<>> THEN [exists |-> TRUE, rows |-> <<>>]
    ELSE [exists |-> TRUE,
          rows |-> <<Headers>> \o
                   [r \in 1..Len(records) |->
                      [j \in 1..Len(Headers) |->
                         Get(records[r], Headers[j], PyStr("")).s]]]

\* what read_csv reads as NaN (its default na_values), among the model's texts
NaTexts == {"", "NA"}

CellAt(row, j) == IF j <= Len(row) THEN row[j] ELSE ""

\* one column of read_csv(...).fillna(""): int64 when every cell is an int,
\* float64 when every cell is a number or NaN, else object
ReadColumn(data, j) ==
    LET cell(r) == CellAt(data[r], j)
        rs == 1..Len(data)
        allInt == \A r \in rs : cell(r) \in IntTexts
        allNum == \A r \in rs : cell(r) \in IntTexts \cup FloatTexts \cup NaTexts
    IN [r \in rs |->
          IF allInt THEN [ty |-> "int", s |-> cell(r)]
          ELSE IF cell(r) \in NaTexts THEN PyStr("")
          ELSE IF allNum
               THEN PyFloat(IF cell(r) \in IntTexts THEN cell(r) \o ".0" ELSE cell(r))
               ELSE PyStr(cell(r))]

\* the exceptions pd.read_csv raises on the file
CsvError(file) ==
    IF file.rows = <<>> THEN "EmptyDataError"
    ELSE IF \E r \in 2..Len(file.rows) : Len(file.rows[r]) > Len(file.rows[1])
         THEN "ParserError"
         ELSE "none"

\* pd.read_csv(...).fillna("").to_dict('records') of a file that parses
read_csv(file) ==
    LET keys == file.rows[1]
        data == Tail(file.rows)
    IN [r \in 1..Len(data) |->
          [f \in Fields |->
             IF \E j \in 1..Len(keys) : keys[j] = f
             THEN LET j == CHOOSE k \in 1..Len(keys) : keys[k] = f
                  IN ReadColumn(data, j)[r]
             ELSE Missing]]

----------------------------------------------------------------------------
(* The form's inputs *)

\* the keys of LAT_LON (two of the seven), in ASCII
LAT_LON == {"Zakimi Castle Ruins (Yomitan)", "American Village (Chatan)"}

Locations == {"Zakimi Castle Ruins (Yomitan)"}
HYValues == {20}
HXValues == {-10}
SYValues == {30}
SXValues == {40}
Comments == {"ok"}
\* the uploaded file's extension; "" when no file is uploaded
Uploads == {"", ".jpg"}

FormInputs ==
    [location : Locations, h_y : HYValues, h_x : HXValues, s_y : SYValues,
     s_x : SXValues, comment : Comments, upload : Uploads]

\* datetime.now().strftime('%Y%m%d_%H%M%S') and ('%Y-%m-%d %H:%M:%S'),
\* second t of one day
FileStamp(t) == "20240101_00000" \o ToString(t)
Timestamp(t) == "2024-01-01 00:00:0" \o ToString(t)

\* os.path.join(save_dir, file_name)
PhotoPath(t, ext) == "photos/" \o FileStamp(t) \o ext

----------------------------------------------------------------------------
(* The main page: map and charts *)

NumericTexts == IntTexts \cup FloatTexts

\* pd.to_numeric(df[col], errors='coerce').fillna(0), one cell; a record
\* without the key is NaN in the frame
ToNumeric(v) ==
    IF v.ty # "missing" /\ v.s \in NumericTexts THEN IntOfText(v.s) ELSE 0

\* x or 0
OrZero(v) ==
    IF v.s = "" \/ (v.ty # "str" /\ IntOfText(v.s) = 0) THEN PyInt(0) ELSE v

\* float(log.get(key, 0) or 0): the number, or ValueError
VectorCoord(log, key) ==
    LET v == OrZero(Get(log, key, PyInt(0)))
    IN IF v.s \in NumericTexts
       THEN [err |-> "none", val |-> IntOfText(v.s)]
       ELSE [err |-> "ValueError", val |-> 0]

\* the map loop: log['Location'], and '>=' between a str and 0
MapError(records) ==
    IF \E r \in 1..Len(records) : records[r].Location.ty = "missing"
    THEN "KeyError"
    ELSE IF \E r \in 1..Len(records) :
               /\ records[r].Location.s \in LAT_LON
               /\ Get(records[r], "Hard_Y_Authenticity", PyInt(0)).ty = "str"
         THEN "TypeError"
         ELSE "none"

\* col in df.columns: some record has the key
InColumns(records, col) == \E r \in 1..Len(records) : records[r][col].ty # "missing"

\* px.scatter(df, x=xcol, y=ycol, text="Location") after the coercion
Scatter(records, xcol, ycol) ==
    IF InColumns(records, xcol) /\ InColumns(records, ycol)
    THEN [err |-> "none",
          pts |-> [r \in 1..Len(records) |->
                     <<ToNumeric(records[r][xcol]), ToNumeric(records[r][ycol])>>]]
    ELSE [err |-> "ValueError", pts |-> <<>>]

\* the vector view: one arrow per record, from the hard to the soft point
VectorView(records) ==
    LET c(r, key) == VectorCoord(records[r], key)
        bad(r) == \E key \in RatingFields : c(r, key).err # "none"
    IN IF \E r \in 1..Len(records) : bad(r)
       THEN [err |-> "ValueError", pts |-> <<>>]
       ELSE [err |-> "none",
             pts |-> [r \in 1..Len(records) |->
                        <<c(r, "Hard_X_Affect").val, c(r, "Hard_Y_Authenticity").val,
                          c(r, "Soft_X_Affect").val, c(r, "Soft_Y_Correctness").val>>]]

NoCharts == [err |-> "none", hard |-> <<>>, soft |-> <<>>, vector |-> <<>>]

\* the main page down to the vector view; the first exception ends the run
Render(records) ==
    IF records = <<>> THEN NoCharts
    ELSE IF MapError(records) # "none"
    THEN [NoCharts EXCEPT !.err = MapError(records)]
    ELSE LET h == Scatter(records, "Hard_X_Affect", "Hard_Y_Authenticity")
             s == Scatter(records, "Soft_X_Affect", "Soft_Y_Correctness")
             v == VectorView(records)
         IN IF h.err # "none" THEN [NoCharts EXCEPT !.err = h.err]
            ELSE IF s.err # "none"
            THEN [NoCharts EXCEPT !.err = s.err, !.hard = h.pts]
            ELSE IF v.err # "none"
            THEN [NoCharts EXCEPT !.err = v.err, !.hard = h.pts, !.soft = s.pts]
            ELSE [err |-> "none", hard |-> h.pts, soft |-> s.pts, vector |-> v.pts]

----------------------------------------------------------------------------
(* The top of the script *)

\* the exceptions the session state initialisation catches
CaughtOnRead == {"EmptyDataError"}

\* lines 14-32: the connection is built when the secrets hold the account and
\* client.open and spreadsheet.sheet1 succeed
Connect(conf, ok) == conf /\ ok

\* session state initialisation; [err, logs]
SessionInit(enabled, ws, file, ok) ==
    IF enabled THEN [err |-> "none", logs |-> load_from_gsheet(ws, ok)]
    ELSE IF file.exists
    THEN IF CsvError(file) = "none"
         THEN [err |-> "none", logs |-> read_csv(file)]
         ELSE IF CsvError(file) \in CaughtOnRead
         THEN [err |-> "none", logs |-> <<>>]
         ELSE [err |-> CsvError(file), logs |-> <<>>]
    ELSE [err |-> "none", logs |-> <<>>]

\* the refresh on every run of a connected script
Refresh(enabled, cur, ws, ok) ==
    IF enabled THEN load_from_gsheet(ws, ok) ELSE cur

\* one run of the script down to the sidebar: [enabled, has, logs, err]
ScriptTop(has, cur, ws, file, run) ==
    LET enabled == Connect(configured, run # "down")
        init == IF has THEN [err |-> "none", logs |-> cur]
                ELSE SessionInit(enabled, ws, file, run = "ok")
    IN IF init.err # "none"
       THEN [enabled |-> enabled, has |-> FALSE, logs |-> <<>>, err |-> init.err]
       ELSE [enabled |-> enabled, has |-> TRUE,
             logs |-> Refresh(enabled, init.logs, ws, run = "ok"), err |-> "none"]

----------------------------------------------------------------------------
(* The interactions.  Each remote call of a run succeeds or fails on its   *)
(* own; a script that is not configured makes none.                        *)

\* a run's remote calls at the top of the script: the connection fails
\* ("down"), or it is built and a load fails ("noload"), or all succeed
RunOutcomes == IF configured THEN {"down", "noload", "ok"} ELSE {"ok"}
\* save_to_gsheet: the call that raises, the first one that fails
SaveOutcomes == IF configured THEN {"getvals", "header", "row", "ok"} ELSE {"ok"}
\* delete_from_gsheet: delete_rows succeeds or raises
DeleteOutcomes == IF configured THEN {"fail", "ok"} ELSE {"ok"}

\* a call that is not made has no outcome: a run that is not connected makes
\* no call of a handler, and the header is appended to an empty worksheet only
StartNet == [run : RunOutcomes]
RenderNet == [run : RunOutcomes]
SubmitNet ==
    {net \in [run : RunOutcomes, save : SaveOutcomes, rerun : RunOutcomes] :
        /\ net.run = "down" => net.save = "ok"
        /\ net.save = "header" => sheet = <<>>}
DeleteNet ==
    {net \in [run : RunOutcomes, del : DeleteOutcomes, rerun : RunOutcomes] :
        net.run = "down" => net.del = "ok"}

\* every remote call of the interaction succeeded, and there were some
AllOk(net) == configured /\ \A k \in DOMAIN net : net[k] = "ok"
\* no remote call of the interaction failed
AllOkOrLocal(net) == \A k \in DOMAIN net : net[k] = "ok"

\* a run of the script in which no button is clicked, from its top to the
\* end of the page; st.rerun() starts one
RunPage(has, cur, ws, file, run) ==
    LET top == ScriptTop(has, cur, ws, file, run)
        page == IF top.err = "none" THEN Render(top.logs)
                ELSE [NoCharts EXCEPT !.err = top.err]
    IN /\ GSHEET_ENABLED' = top.enabled
       /\ hasLogs' = top.has
       /\ logs' = top.logs
       /\ charts' = page
       /\ raised' = page.err

\* a browser session opens the page: st.session_state is empty
SessionStart(net) ==
    /\ RunPage(FALSE, <<>>, sheet, csv, net.run)
    /\ last' = "start"
    /\ success' = FALSE
    /\ UNCHANGED <<configured, sheet, csv, photos, clock>>

\* a widget other than the two buttons changes: the script runs again
Rerender(net) ==
    /\ hasLogs
    /\ RunPage(TRUE, logs, sheet, csv, net.run)
    /\ last' = "render"
    /\ success' = FALSE
    /\ UNCHANGED <<configured, sheet, csv, photos, clock>>

\* the dict the Record handler builds
NewLog(in, path, t) ==
    [Location |-> PyStr(in.location),
     Hard_Y_Authenticity |-> PyInt(in.h_y),
     Hard_X_Affect |-> PyInt(in.h_x),
     Soft_Y_Correctness |-> PyInt(in.s_y),
     Soft_X_Affect |-> PyInt(in.s_x),
     Comment |-> PyStr(in.comment),
     Image_Path |-> PyStr(path),
     Timestamp |-> PyStr(Timestamp(t))]

\* the path the uploaded file is written to; "" when none is uploaded
SavedPhotoPath(in, t) == IF in.upload = "" THEN "" ELSE PhotoPath(t, in.upload)

\* "Record" is clicked: the script runs to the sidebar, the handler saves the
\* photo, appends, saves to the worksheet and to the CSV file, and reruns
Submit(in, net) ==
    /\ hasLogs
    /\ Len(logs) < MaxLogs
    /\ Len(sheet) <= MaxLogs
    /\ LET top == ScriptTop(TRUE, logs, sheet, csv, net.run)
           path == SavedPhotoPath(in, clock)
           new_log == NewLog(in, path, clock)
           logs1 == Append(top.logs, new_log)
           saved == IF top.enabled THEN save_to_gsheet(sheet, new_log, net.save)
                    ELSE [ws |-> sheet, ok |-> FALSE]
       IN /\ photos' = IF path = "" THEN photos ELSE photos \cup {path}
          /\ sheet' = saved.ws
          /\ csv' = to_csv(logs1)
          /\ RunPage(TRUE, logs1, saved.ws, to_csv(logs1), net.rerun)
    /\ success' = TRUE
    /\ last' = "submit"
    /\ UNCHANGED <<configured, clock>>

\* os.path.exists(img_path) and os.remove(img_path) of the delete handler
RemovePhoto(files, img_path) ==
    IF img_path.s # "" /\ img_path.ty = "str" /\ img_path.s \in files
    THEN files \ {img_path.s}
    ELSE files

\* the delete button of position i (as listed by the last run) is clicked: the
\* script runs down to the Records List; the button of position i fires when
\* the list of this run still has it
Delete(i, net) ==
    /\ hasLogs
    /\ raised = "none"
    /\ i \in 0..(Len(logs) - 1)
    /\ LET top == ScriptTop(TRUE, logs, sheet, csv, net.run)
           cur == top.logs
           page == Render(cur)
       IN IF page.err # "none" \/ i >= Len(cur)
          THEN /\ GSHEET_ENABLED' = top.enabled
               /\ logs' = cur
               /\ charts' = page
               /\ raised' = page.err
               /\ last' = "lost"
               /\ UNCHANGED <<hasLogs, sheet, csv, photos>>
          ELSE LET log == cur[i + 1]
                   deleted == IF top.enabled
                              THEN delete_from_gsheet(sheet, i, net.del = "ok")
                              ELSE [ws |-> sheet, ok |-> FALSE]
                   logs1 == Pop(cur, i)
               IN /\ photos' = RemovePhoto(photos, Get(log, "Image_Path", PyStr("")))
                  /\ sheet' = deleted.ws
                  /\ csv' = to_csv(logs1)
                  /\ RunPage(TRUE, logs1, deleted.ws, to_csv(logs1), net.rerun)
                  /\ last' = "delete"
    /\ success' = FALSE
    /\ UNCHANGED <<configured, clock>>

\* a second passes
Tick ==
    /\ clock < MaxClock
    /\ clock' = clock + 1
    /\ UNCHANGED <<configured, GSHEET_ENABLED, hasLogs, logs, sheet, csv, photos,
                   raised, charts, success, last>>

Init ==
    /\ configured \in BOOLEAN
    /\ GSHEET_ENABLED = FALSE
    /\ hasLogs = FALSE
    /\ logs = <<>>
    /\ sheet = <<>>
    /\ csv = NoFile
    /\ photos = {}
    /\ clock = 0
    /\ raised = "none"
    /\ charts = NoCharts
    /\ success = FALSE
    /\ last = "none"

Next ==
    \/ \E net \in StartNet : SessionStart(net)
    \/ \E net \in RenderNet : Rerender(net)
    \/ \E in \in FormInputs, net \in SubmitNet : Submit(in, net)
    \/ \E i \in 0..(MaxLogs - 1), net \in DeleteNet : Delete(i, net)
    \/ Tick

Spec == Init /\ [][Next]_vars

----------------------------------------------------------------------------
(* Session start on a backup file found on disk (local mode).  The file is *)
(* what an earlier process left: nothing, an empty file, a table, or a      *)
(* table cut or damaged in the middle of a row.                             *)

\* rows a file on disk may hold: rows the program writes, a row with one cell
\* too many and a row cut short
RowsOnDisk ==
    LET written == {RowOf(NewLog(in, SavedPhotoPath(in, t), t)) :
                      in \in FormInputs, t \in 0..MaxClock}
    IN written \cup {Append(row, "x") : row \in written}
               \cup {SubSeq(row, 1, 2) : row \in written}

FilesOnDisk ==
    {NoFile, [exists |-> TRUE, rows |-> <<>>], [exists |-> TRUE, rows |-> <<Headers>>]}
    \cup {[exists |-> TRUE, rows |-> <<Headers, r1>>] : r1 \in RowsOnDisk}
    \cup {[exists |-> TRUE, rows |-> <<Headers, r1, r2>>] :
            r1 \in RowsOnDisk, r2 \in RowsOnDisk}

InitStart ==
    /\ configured = FALSE
    /\ GSHEET_ENABLED = FALSE
    /\ hasLogs = FALSE
    /\ logs = <<>>
    /\ sheet = <<>>
    /\ csv \in FilesOnDisk
    /\ photos = {}
    /\ clock = 0
    /\ raised = "none"
    /\ charts = NoCharts
    /\ success = FALSE
    /\ last = "none"

NextStart ==
    \/ \E net \in StartNet : SessionStart(net)
    \/ \E net \in RenderNet : Rerender(net)

SpecStart == InitStart /\ [][NextStart]_vars

----------------------------------------------------------------------------
(* The charts of a record store whose ratings are whatever the storage     *)
(* held: numbers, numeric or other strings, empty cells, or no column.      *)

RatingsOnFile == {PyInt(20), PyStr("12"), PyStr(""), PyStr("abc"), Missing}

RecordsOnFile ==
    [Location : {PyStr("Zakimi Castle Ruins (Yomitan)"), PyStr("Nameless Gusuku")},
     Hard_Y_Authenticity : RatingsOnFile,
     Hard_X_Affect : RatingsOnFile,
     Soft_Y_Correctness : {PyInt(30)} \cup (RatingsOnFile \ {PyInt(20), PyStr("12")}),
     Soft_X_Affect : {PyInt(40)},
     Comment : {PyStr("ok")},
     Image_Path : {PyStr("")},
     Timestamp : {PyStr(Timestamp(0))}]

\* a record as the form builds it
FormRecord ==
    NewLog([location |-> "Zakimi Castle Ruins (Yomitan)", h_y |-> 20, h_x |-> -10,
            s_y |-> 30, s_x |-> 40, comment |-> "ok", upload |-> ""], "", 0)

InitCharts ==
    /\ configured = FALSE
    /\ GSHEET_ENABLED = FALSE
    /\ hasLogs = TRUE
    /\ logs \in {<<r>> : r \in RecordsOnFile} \cup {<<r, FormRecord>> : r \in RecordsOnFile}
    /\ sheet = <<>>
    /\ csv = NoFile
    /\ photos = {}
    /\ clock = 0
    /\ raised = "none"
    /\ charts = NoCharts
    /\ success = FALSE
    /\ last = "none"

NextCharts == \E net \in RenderNet : Rerender(net)

SpecCharts == InitCharts /\ [][NextCharts]_vars

----------------------------------------------------------------------------
(* Submissions and new sessions with every persistence call succeeding,    *)
(* over comments of several kinds of text.                                  *)

TextInputs ==
    [location : Locations, h_y : HYValues, h_x : HXValues, s_y : SYValues,
     s_x : SXValues, comment : {"ok", "12", "NA", ""}, upload : {""}]

NextRoundTrip ==
    \/ \E net \in StartNet : AllOkOrLocal(net) /\ SessionStart(net)
    \/ \E in \in TextInputs, net \in SubmitNet : AllOkOrLocal(net) /\ Submit(in, net)
    \/ Tick

SpecRoundTrip == Init /\ [][NextRoundTrip]_vars

----------------------------------------------------------------------------
(* Remote mode with a reachable remote: every remote call succeeds.        *)

InitReachable == Init /\ configured

NextReachable ==
    \/ \E net \in StartNet : AllOk(net) /\ SessionStart(net)
    \/ \E net \in RenderNet : AllOk(net) /\ Rerender(net)
    \/ \E in \in FormInputs, net \in SubmitNet : AllOk(net) /\ Submit(in, net)
    \/ \E i \in 0..(MaxLogs - 1), net \in DeleteNet : AllOk(net) /\ Delete(i, net)
    \/ Tick

SpecReachable == InitReachable /\ [][NextReachable]_vars

----------------------------------------------------------------------------
(* Remote mode with remote calls that succeed or fail one by one, over     *)
(* submissions without a photo.                                             *)

PlainInputs == {in \in FormInputs : in.upload = ""}

NextRemote ==
    \/ \E net \in StartNet : SessionStart(net)
    \/ \E net \in RenderNet : Rerender(net)
    \/ \E in \in PlainInputs, net \in SubmitNet : Submit(in, net)
    \/ \E i \in 0..(MaxLogs - 1), net \in DeleteNet : Delete(i, net)
    \/ Tick

SpecRemote == InitReachable /\ [][NextRemote]_vars

----------------------------------------------------------------------------
(* The properties *)

\* the record a submission of `in` at the current second builds
Submitted(in) == NewLog(in, SavedPhotoPath(in, clock), clock)

IsPrefix(a, b) == Len(a) <= Len(b) /\ \A k \in 1..Len(a) : b[k] = a[k]

\* C1: with every persistence call succeeding, each submission leaves the
\* store holding the records it held followed by the submitted record, field
\* for field, and a new session's load from the active backend (the worksheet
\* in remote mode, the CSV file in local mode) yields exactly the store: the N
\* submitted records, with the same field values, in submission order.
C1_RoundTrip ==
    [][/\ \A in \in TextInputs, net \in SubmitNet :
            (AllOkOrLocal(net) /\ Submit(in, net)) => logs' = Append(logs, Submitted(in))
       /\ \A net \in StartNet :
            (AllOkOrLocal(net) /\ hasLogs /\ SessionStart(net)) => logs' = logs]_vars

\* C2: the delete action on position i of a store of length n leaves the
\* store without exactly the record at i (length n-1, the records before i in
\* place, the records after i one position down), and afterwards the photo
\* file the deleted record names does not exist.
C2_DeleteRemovesExactlyOne ==
    [][\A i \in 0..(MaxLogs - 1), net \in DeleteNet :
          Delete(i, net) =>
             /\ logs' = Pop(logs, i)
             /\ logs[i + 1].Image_Path.s # "" => logs[i + 1].Image_Path.s \notin photos']_vars

\* the rows of the backup file with one more record's row
RowsWith(file, log) ==
    (IF file.rows = <<>> THEN <<Headers>> ELSE file.rows) \o <<RowOf(log)>>

\* C3: in remote mode (the connection is built) with the remote unreachable
\* (every call to the worksheet fails, in the handler's run and in the rerun),
\* a submission leaves the store and the backup file each holding the records
\* it held before followed by the new record, and the success message is shown.
C3_SubmitSurvivesOutage ==
    [][\A in \in FormInputs, net \in SubmitNet :
          (/\ configured
           /\ net.run = "noload" /\ net.save = "getvals" /\ net.rerun # "ok"
           /\ Submit(in, net)) =>
             /\ logs' = Append(logs, Submitted(in))
             /\ csv'.exists /\ csv'.rows = RowsWith(csv, Submitted(in))
             /\ success']_vars

\* C4: a record of the store stays in the store, with its field values, across
\* every interaction of the session that is not a deletion: a re-render or a
\* submission keeps every record of the store in its place.
C4_RecordsStay ==
    [][((\E net \in RenderNet : Rerender(net))
        \/ (\E in \in FormInputs, net \in SubmitNet : Submit(in, net)))
       => IsPrefix(logs, logs')]_vars

\* C5: after every append and every delete the backup file holds exactly the
\* records the store is to hold: the store of before with the submitted record
\* appended, or with the deleted record removed.
C5_BackupIsFullSnapshot ==
    [][/\ \A in \in FormInputs, net \in SubmitNet :
            Submit(in, net) => csv' = to_csv(Append(logs, Submitted(in)))
       /\ \A i \in 0..(MaxLogs - 1), net \in DeleteNet :
            (Delete(i, net) /\ last' = "delete") => csv' = to_csv(Pop(logs, i))]_vars

\* C6: every record of the store that names a photo owns it: the file exists
\* and no other record of the store names it.
C6_PhotoOwnedByOneRecord ==
    \A k \in 1..Len(logs) :
        logs[k].Image_Path.s # "" =>
            /\ logs[k].Image_Path.s \in photos
            /\ \A j \in 1..Len(logs) : j # k => logs[j].Image_Path.s # logs[k].Image_Path.s

\* a rating that is missing, empty or not a number
Unparseable(v) == v.ty = "missing" \/ (v.ty = "str" /\ v.s \notin NumericTexts)

\* the rating of record r is plotted as 0 on its scatter chart and on the
\* vector view
PlottedAsZero(ch, r, f) ==
    /\ f = "Hard_X_Affect" => ch.hard[r][1] = 0 /\ ch.vector[r][1] = 0
    /\ f = "Hard_Y_Authenticity" => ch.hard[r][2] = 0 /\ ch.vector[r][2] = 0
    /\ f = "Soft_X_Affect" => ch.soft[r][1] = 0 /\ ch.vector[r][3] = 0
    /\ f = "Soft_Y_Correctness" => ch.soft[r][2] = 0 /\ ch.vector[r][4] = 0

\* C7: rendering a store leaves it unchanged, and for every record whose
\* rating is missing, empty or not a number every chart renders, with that
\* rating plotted as 0.
C7_UnparseableRatingPlotsZero ==
    [][\A net \in RenderNet :
          Rerender(net) =>
             /\ logs' = logs
             /\ \A r \in 1..Len(logs), f \in RatingFields :
                   Unparseable(logs[r][f]) =>
                       /\ raised' = "none"
                       /\ PlottedAsZero(charts', r, f)]_vars

\* C8: at session start in local mode, a backup file that exists
\* and cannot be read, being empty or malformed, is caught: the store is the
\* empty sequence and the run raises nothing.
C8_UnreadableBackupCaught ==
    (last = "start" /\ ~configured /\ csv.exists /\ CsvError(csv) # "none") =>
        (hasLogs /\ logs = <<>> /\ raised = "none")

\* C9: in remote mode with a reachable remote the store is the worksheet's
\* data rows, read in order, and deleting position i removes worksheet row i+2,
\* the row that holds the record of position i, and nothing else.
C9_DeleteRemovesSameRow ==
    /\ [](hasLogs => logs = get_all_records(sheet))
    /\ [][\A i \in 0..(MaxLogs - 1), net \in DeleteNet :
             (AllOk(net) /\ Delete(i, net)) =>
                /\ get_all_records(sheet)[i + 1] = logs[i + 1]
                /\ sheet' = SubSeq(sheet, 1, i + 1) \o SubSeq(sheet, i + 3, Len(sheet))
                /\ sheet'[1] = Headers
                /\ logs' = Pop(logs, i)]_vars

C9_Witness ==
    /\ last = "delete" /\ configured /\ GSHEET_ENABLED
    /\ Len(sheet) = 2 /\ Len(logs) = 1
    /\ logs = get_all_records(sheet)

\* C10: the worksheet is empty, or its first row is the header and no row
\* below it is: the header is appended once and no delete removes it.
C10_HeaderFirstAndOnce ==
    \/ sheet = <<>>
    \/ /\ sheet[1] = Headers
       /\ \A r \in 2..Len(sheet) : sheet[r] # Headers

C10_Witness ==
    /\ last = "delete"
    /\ Len(sheet) = MaxLogs + 1
    /\ sheet[1] = Headers
    /\ logs # get_all_records(sheet)

====
